---- MODULE Spec2Model ----
(***************************************************************************)
(* Model of app.py (gemini-api-alert): main dispatches on alert_type and   *)
(* runs up to three analyses (price deviation, price change, volume        *)
(* deviation) against the provider's ticker and candle endpoints.          *)
(*                                                                         *)
(* Numbers.  Prices and volumes are small naturals.  Floating point        *)
(* values are modelled by exact arithmetic: a percentage and a threshold   *)
(* are rationals [n, d] with d > 0, compared by cross multiplication; a    *)
(* z-score is sgn * sqrt(p / q), compared with an integer sigma through    *)
(* its sign and its square.  Rounding is not modelled.                     *)
(*                                                                         *)
(* Exceptions.  Every function that can raise returns a record             *)
(* [exc, val]: exc = "none" is a normal return of val, any other exc is    *)
(* the Python exception raised ("unset" marks a statement never reached).  *)
(***************************************************************************)
EXTENDS Integers, Sequences, FiniteSets, TLC

VARIABLES alert_type, deviation, pc, todo, started, requests, events,
          failures, frame, unit

vars == <<alert_type, deviation, pc, todo, started, requests, events,
          failures, frame, unit>>

(***************************************************************************)
(* Bounds of the model                                                     *)
(***************************************************************************)
MaxPrice == 3
MaxLen == 3
MaxRows == 2
MaxRows1m == 1
MaxVol == 2

(***************************************************************************)
(* Program constants                                                       *)
(***************************************************************************)
SIGMA == 1
HOURS == 24
PERCENT == 100

(***************************************************************************)
(* JSON values as the provider may send them, and Python's view of them    *)
(***************************************************************************)
Absent == [form |-> "absent", val |-> 0]
Null == [form |-> "null", val |-> 0]
Num(v) == [form |-> "num", val |-> v]
Str(v) == [form |-> "str", val |-> v]
EmptyStr == [form |-> "empty", val |-> 0]
Text == [form |-> "text", val |-> 0]

Values == 0..MaxPrice
Fields == {Absent, Null, EmptyStr, Text} \cup {Num(v) : v \in Values}
             \cup {Str(v) : v \in Values}
PyVals == {Null} \cup {Num(v) : v \in Values}
Volumes == {Null} \cup {Num(v) : v \in 0..MaxVol}

Ok(v) == [exc |-> "none", val |-> v]
Raise(e, v) == [exc |-> e, val |-> v]
Unset(v) == [exc |-> "unset", val |-> v]
Failed(r) == r.exc # "none"

RECURSIVE FirstExc(_)
FirstExc(s) ==
    IF s = <<>> THEN "none"
    ELSE IF Head(s) \notin {"none", "unset"} THEN Head(s)
    ELSE FirstExc(Tail(s))

\* bool(x): dict.get gives None for an absent key; None, 0, 0.0 and "" are
\* false, every other number and every non-empty string is true.
Truthy(x) ==
    CASE x.form = "absent" -> FALSE
      [] x.form = "null" -> FALSE
      [] x.form = "empty" -> FALSE
      [] x.form = "num" -> x.val # 0
      [] x.form = "str" -> TRUE
      [] x.form = "text" -> TRUE

\* float(x) of a JSON number or string
PyFloat(x) ==
    CASE x.form \in {"num", "str"} -> Ok(x.val)
      [] x.form \in {"empty", "text"} -> Raise("ValueError", 0)
      [] OTHER -> Raise("TypeError", 0)

(***************************************************************************)
(* Rationals                                                               *)
(***************************************************************************)
Abs(i) == IF i < 0 THEN -i ELSE i
Rat(n, d) == IF d < 0 THEN [n |-> -n, d |-> -d] ELSE [n |-> n, d |-> d]
RatZero == [n |-> 0, d |-> 1]
RatAbs(a) == [n |-> Abs(a.n), d |-> a.d]
RatGreater(a, b) == a.n * b.d > b.n * a.d

RECURSIVE Sum(_)
Sum(s) == IF s = <<>> THEN 0 ELSE Head(s) + Sum(Tail(s))
RECURSIVE SumSq(_)
SumSq(s) == IF s = <<>> THEN 0 ELSE Head(s) * Head(s) + SumSq(Tail(s))

(***************************************************************************)
(* send_request and response.json()                                        *)
(***************************************************************************)
NoTicker == [json |-> FALSE, close |-> Absent, open |-> Absent,
             changes |-> [form |-> "absent", vals |-> <<>>]]
NoCandles == [json |-> FALSE, rows |-> <<>>]

\* Variant: the handler re-raises the transport error after logging it.
SendRequestReraises(reply, nobody) ==
    IF reply.transport = "no_response" THEN Raise("ConnectionError", nobody)
    ELSE IF reply.transport = "http_error" THEN Raise("HTTPError", nobody)
    ELSE Ok(reply.body)

\* requests.get raises before `response` is bound ("no_response"), or
\* raise_for_status raises after it is bound ("http_error"); the handler
\* logs either, and `return response` then reads the local.
SendRequest(reply, nobody) ==
    IF reply.transport = "no_response"
    THEN Raise("UnboundLocalError", nobody)
    ELSE Ok(reply.body)

ResponseJson(body, nobody) ==
    IF body.json THEN Ok(body) ELSE Raise("JSONDecodeError", nobody)

(***************************************************************************)
(* Statistics                                                              *)
(***************************************************************************)
\* Variant: only the divisor is guarded.
CalculatePercentageChangeInitialOnly(final, initial) ==
    IF Truthy(initial)
    THEN Ok(Rat((final.val - initial.val) * PERCENT, initial.val))
    ELSE Raise("ValueError", RatZero)

CalculatePercentageChange(final, initial) ==
    IF Truthy(final) /\ Truthy(initial)
    THEN Ok(Rat((final.val - initial.val) * PERCENT, initial.val))
    ELSE Raise("ValueError", RatZero)

NoZ == [sgn |-> 0, p |-> 0, q |-> 1]

Sign(i) == IF i > 0 THEN 1 ELSE IF i < 0 THEN -1 ELSE 0

\* With n values of sum S and sum of squares Q: mean = S/n,
\* stdev^2 = (n*Q - S*S) / (n*(n-1)), so
\* zscore^2 = (n*cur - S)^2 * (n-1) / (n * (n*Q - S*S)).
ZscoreOf(past_values, current_price) ==
    LET n == Len(past_values)
        S == Sum(past_values)
        Q == SumSq(past_values)
        D == n * current_price - S
    IN  [sgn |-> Sign(D), p |-> D * D * (n - 1), q |-> n * (n * Q - S * S)]

\* The exception raised inside the try block, which the handler swallows.
ZscoreTryBlock(past_values, current_price) ==
    LET n == Len(past_values)
    IN  IF n < 2 THEN "StatisticsError"
        ELSE IF n * SumSq(past_values) - Sum(past_values) * Sum(past_values) = 0
        THEN "ZeroDivisionError"
        ELSE "none"

\* Variant: zscore is bound to 0 before the try block, so a swallowed
\* exception returns that stale value.
CalculateZscoreDefaultZero(past_values, current_price) ==
    IF ZscoreTryBlock(past_values, current_price) = "none"
    THEN Ok(ZscoreOf(past_values, current_price))
    ELSE Ok(NoZ)

\* After a swallowed exception the return statement reads zscore, which
\* was never bound.
CalculateZscore(past_values, current_price) ==
    IF ZscoreTryBlock(past_values, current_price) = "none"
    THEN Ok(ZscoreOf(past_values, current_price))
    ELSE Raise("UnboundLocalError", NoZ)

\* zscore > t and zscore < t for an integer t
ZGreater(z, t) ==
    IF t >= 0 THEN z.sgn > 0 /\ z.p > t * t * z.q
    ELSE z.sgn >= 0 \/ z.p < t * t * z.q
ZLess(z, t) ==
    IF t <= 0 THEN z.sgn < 0 /\ z.p > t * t * z.q
    ELSE z.sgn <= 0 \/ z.p < t * t * z.q

(***************************************************************************)
(* Extraction                                                              *)
(***************************************************************************)
GetCurrentPrice(response) ==
    IF Truthy(response.close) THEN PyFloat(response.close)
    ELSE Raise("ValueError", 0)

GetOpenPrice(response) ==
    IF Truthy(response.open) THEN PyFloat(response.open)
    ELSE Raise("ValueError", 0)

\* [float(x) for x in response.get('changes')]
GetHourlyPast24Hours(response) ==
    IF response.changes.form = "absent" THEN Raise("TypeError", <<>>)
    ELSE Ok(response.changes.vals)

Last(row) == row[Len(row)]

GetCurrentVolume1mInterval(response) ==
    IF response # <<>> /\ response[1] # <<>>
    THEN Ok(Last(response[1]))
    ELSE Raise("ValueError", Null)

Min(a, b) == IF a < b THEN a ELSE b

GetTotalVolumePast24Hours(response) ==
    IF response = <<>> THEN Raise("ValueError", Null)
    ELSE LET past_24hours == SubSeq(response, 1, Min(HOURS, Len(response)))
             idx == 1..Len(past_24hours)
         IN  IF \E i \in idx : past_24hours[i] = <<>>
             THEN Raise("IndexError", Null)
             ELSE IF \E i \in idx : Last(past_24hours[i]).form # "num"
             THEN Raise("TypeError", Null)
             ELSE Ok(Num(Sum([i \in idx |-> Last(past_24hours[i]).val])))

(***************************************************************************)
(* Alert sink and classification                                           *)
(***************************************************************************)
Event(kind, severity, via, message) ==
    [kind |-> kind, severity |-> severity, via |-> via, message |-> message]

SendAlert(alert_type_, message) ==
    IF alert_type_ # "" /\ message # ""
    THEN Ok(<<Event(alert_type_, "ALERT", "sink", message)>>)
    ELSE Raise("ValueError", <<>>)

SendInfo(alert_type_, message) ==
    IF alert_type_ # "" /\ message # ""
    THEN Ok(<<Event(alert_type_, "INFO", "sink", message)>>)
    ELSE Raise("ValueError", <<>>)

\* Variant: the band's boundary counts as outside it.
ClassifyBySigmaInclusive(zscore, stdev) ==
    IF ~ZLess(zscore, stdev)
    THEN Ok(<<Event("pricedev", "ALERT", "log", "standard deviations above the mean")>>)
    ELSE IF ~ZGreater(zscore, stdev * (-1))
    THEN Ok(<<Event("pricedev", "ALERT", "log", "standard deviations below the mean")>>)
    ELSE Ok(<<Event("pricedev", "INFO", "log", "within 1 standard deviation")>>)

\* get_price_deviation's if/elif/else: log.error on either side of the
\* band, log.info inside it; neither send_alert nor send_info is called.
ClassifyBySigma(zscore, stdev) ==
    IF ZGreater(zscore, stdev)
    THEN Ok(<<Event("pricedev", "ALERT", "log", "standard deviations above the mean")>>)
    ELSE IF ZLess(zscore, stdev * (-1))
    THEN Ok(<<Event("pricedev", "ALERT", "log", "standard deviations below the mean")>>)
    ELSE Ok(<<Event("pricedev", "INFO", "log", "within 1 standard deviation")>>)

\* get_price_change's if/else
ClassifyPriceChange(percent_change, threshold) ==
    IF RatGreater(RatAbs(percent_change), threshold)
    THEN SendAlert("pricechange", "is greater or equal to threshold")
    ELSE SendInfo("pricechange", "is less than threshold")

\* Variant: the volume comparison takes the magnitude, as the price one does.
ClassifyVolumeAbsolute(percent_change, threshold) ==
    IF RatGreater(RatAbs(percent_change), threshold)
    THEN SendAlert("voldev", "threshold of")
    ELSE SendInfo("voldev", "threshold of")

\* get_volume_deviation's if/else
ClassifyVolume(percent_change, threshold) ==
    IF RatGreater(percent_change, threshold)
    THEN SendAlert("voldev", "threshold of")
    ELSE SendInfo("voldev", "threshold of")

\* Variant: the handler names ValueError only.
ExceptValueErrorOnly(exc) ==
    IF exc \in {"none", "ValueError"} THEN [caught |-> exc, raised |-> "none"]
    ELSE [caught |-> "none", raised |-> exc]

\* `except Exception`: every exception of the model is an Exception, so the
\* handler catches it, logs it, and nothing leaves the function.
ExceptException(exc) == [caught |-> exc, raised |-> "none"]

(***************************************************************************)
(* The three analyses.  Each returns its frame: the locals it bound, what  *)
(* it emitted, the exception its handler caught and the one it let out.    *)
(***************************************************************************)
NoFrame ==
    [kind |-> "none", transports |-> <<>>, requests |-> <<>>,
     response |-> Unset(NoTicker),
     current_price |-> Unset(0), open_price |-> Unset(0),
     zscore |-> Unset(NoZ),
     total_24hr_volume |-> Unset(Null), current_volume |-> Unset(Null),
     percent_change |-> Unset(RatZero), threshold |-> RatZero,
     emitted |-> <<>>, caught |-> "none", raised |-> "none"]

GetPriceDeviation(reply, stdev) ==
    LET response == SendRequest(reply, NoTicker)
        response_json == IF Failed(response) THEN Unset(NoTicker)
                         ELSE ResponseJson(response.val, NoTicker)
        current_price == IF Failed(response_json) THEN Unset(0)
                         ELSE GetCurrentPrice(response_json.val)
        past_prices == IF Failed(current_price) THEN Unset(<<>>)
                       ELSE GetHourlyPast24Hours(response_json.val)
        zscore == IF Failed(past_prices) THEN Unset(NoZ)
                  ELSE CalculateZscore(past_prices.val, current_price.val)
        emitted == IF Failed(zscore) THEN Unset(<<>>)
                   ELSE ClassifyBySigma(zscore.val, stdev)
        handled == ExceptException(FirstExc(<<response.exc, response_json.exc,
                       current_price.exc, past_prices.exc, zscore.exc,
                       emitted.exc>>))
    IN  [NoFrame EXCEPT !.kind = "pricedev",
                        !.transports = <<reply.transport>>,
                        !.requests = <<"ticker">>,
                        !.response = response,
                        !.current_price = current_price,
                        !.zscore = zscore,
                        !.threshold = Rat(stdev, 1),
                        !.emitted = emitted.val,
                        !.caught = handled.caught,
                        !.raised = handled.raised]

GetPriceChange(reply, threshold) ==
    LET response == SendRequest(reply, NoTicker)
        response_json == IF Failed(response) THEN Unset(NoTicker)
                         ELSE ResponseJson(response.val, NoTicker)
        current_price == IF Failed(response_json) THEN Unset(0)
                         ELSE GetCurrentPrice(response_json.val)
        open_price == IF Failed(current_price) THEN Unset(0)
                      ELSE GetOpenPrice(response_json.val)
        percent_change == IF Failed(open_price) THEN Unset(RatZero)
                          ELSE CalculatePercentageChange(Num(current_price.val),
                                                         Num(open_price.val))
        emitted == IF Failed(percent_change) THEN Unset(<<>>)
                   ELSE ClassifyPriceChange(percent_change.val, threshold)
        handled == ExceptException(FirstExc(<<response.exc, response_json.exc,
                       current_price.exc, open_price.exc, percent_change.exc,
                       emitted.exc>>))
    IN  [NoFrame EXCEPT !.kind = "pricechange",
                        !.transports = <<reply.transport>>,
                        !.requests = <<"ticker">>,
                        !.response = response,
                        !.current_price = current_price,
                        !.open_price = open_price,
                        !.percent_change = percent_change,
                        !.threshold = threshold,
                        !.emitted = emitted.val,
                        !.caught = handled.caught,
                        !.raised = handled.raised]

\* The second request is sent only when the first response gave a total.
NotSent == [transport |-> "not_sent", body |-> NoCandles]

VolumeFirstHalf(reply1) ==
    LET response == SendRequest(reply1, NoCandles)
        response_json == IF Failed(response) THEN Unset(NoCandles)
                         ELSE ResponseJson(response.val, NoCandles)
    IN  [response |-> response, response_json |-> response_json,
         total_24hr_volume |->
             IF Failed(response_json) THEN Unset(Null)
             ELSE GetTotalVolumePast24Hours(response_json.val.rows)]

GetVolumeDeviation(reply1, reply2, threshold) ==
    LET first == VolumeFirstHalf(reply1)
        total_24hr_volume == first.total_24hr_volume
        response == IF Failed(total_24hr_volume) THEN Unset(NoCandles)
                    ELSE SendRequest(reply2, NoCandles)
        response_json == IF Failed(response) THEN Unset(NoCandles)
                         ELSE ResponseJson(response.val, NoCandles)
        current_volume == IF Failed(response_json) THEN Unset(Null)
                          ELSE GetCurrentVolume1mInterval(response_json.val.rows)
        percent_change == IF Failed(current_volume) THEN Unset(RatZero)
                          ELSE CalculatePercentageChange(current_volume.val,
                                                         total_24hr_volume.val)
        emitted == IF Failed(percent_change) THEN Unset(<<>>)
                   ELSE ClassifyVolume(percent_change.val, threshold)
        handled == ExceptException(FirstExc(<<first.response.exc,
                       first.response_json.exc, total_24hr_volume.exc,
                       response.exc, response_json.exc, current_volume.exc,
                       percent_change.exc, emitted.exc>>))
    IN  [NoFrame EXCEPT !.kind = "voldev",
                        !.transports = IF Failed(total_24hr_volume)
                                       THEN <<reply1.transport>>
                                       ELSE <<reply1.transport, reply2.transport>>,
                        !.requests = IF Failed(total_24hr_volume)
                                     THEN <<"candles/1hr">>
                                     ELSE <<"candles/1hr", "candles/1m">>,
                        !.total_24hr_volume = total_24hr_volume,
                        !.current_volume = current_volume,
                        !.percent_change = percent_change,
                        !.threshold = threshold,
                        !.emitted = emitted.val,
                        !.caught = handled.caught,
                        !.raised = handled.raised]

(***************************************************************************)
(* What the provider may answer                                            *)
(***************************************************************************)
RECURSIVE SeqsUpTo(_, _)
SeqsUpTo(S, n) ==
    IF n = 0 THEN {<<>>}
    ELSE LET shorter == SeqsUpTo(S, n - 1)
         IN  shorter \cup {Append(s, x) : s \in shorter, x \in S}

ChangesLists == {[form |-> "absent", vals |-> <<>>]}
                   \cup {[form |-> "list", vals |-> s] : s \in SeqsUpTo(1..MaxPrice, MaxLen)}

\* Tickers vary the open field with a fixed history, or the history with a
\* fixed open field; the close field varies in both.
Tickers ==
    [json : {TRUE}, close : Fields, open : Fields,
     changes : {[form |-> "list", vals |-> <<1, 2, 3>>]}]
    \cup [json : {TRUE}, close : Fields, open : {Str(1)}, changes : ChangesLists]

TickerReplies ==
    [transport : {"ok", "http_error"}, body : Tickers \cup {NoTicker}]
    \cup {[transport |-> "no_response", body |-> NoTicker]}

\* A row ends with its volume; the fields before it are not read.
CandleRows == {<<>>} \cup {<<Num(7), v>> : v \in Volumes}

CandleReplies(n) ==
    [transport : {"ok", "http_error"},
     body : {[json |-> TRUE, rows |-> r] : r \in SeqsUpTo(CandleRows, n)}
               \cup {NoCandles}]
    \cup {[transport |-> "no_response", body |-> NoCandles]}

(***************************************************************************)
(* main                                                                    *)
(***************************************************************************)
AlertTypes == {"pricedev", "pricechange", "voldev", "all", "bogus"}
Deviations == {Rat(-1, 1), Rat(0, 1), Rat(1, 2), Rat(1, 1)}

\* Variant: "all" starts the volume analysis before the price ones.
DispatchOutOfOrder(type) ==
    CASE type = "pricedev" -> <<"pricedev">>
      [] type = "pricechange" -> <<"pricechange">>
      [] type = "voldev" -> <<"voldev">>
      [] type = "all" -> <<"voldev", "pricedev", "pricechange">>
      [] OTHER -> <<>>

\* main's if/elif chain: the analyses it calls, in order
Dispatch(type) ==
    CASE type = "pricedev" -> <<"pricedev">>
      [] type = "pricechange" -> <<"pricechange">>
      [] type = "voldev" -> <<"voldev">>
      [] type = "all" -> <<"pricedev", "pricechange", "voldev">>
      [] OTHER -> <<>>

\* deviation = deviation * 100
Threshold == Rat(deviation.n * PERCENT, deviation.d)

NoUnit == [called |-> FALSE, final |-> Null, initial |-> Null,
           result |-> Unset(RatZero)]

Init ==
    /\ alert_type \in AlertTypes
    /\ deviation \in Deviations
    /\ pc = "start"
    /\ todo = <<>>
    /\ started = <<>>
    /\ requests = <<>>
    /\ events = <<>>
    /\ failures = <<>>
    /\ frame = NoFrame
    /\ unit = NoUnit

Main ==
    /\ pc = "start"
    /\ todo' = Dispatch(alert_type)
    /\ pc' = IF todo' = <<>> THEN "done" ELSE "call"
    /\ failures' = IF todo' = <<>>
                   THEN Append(failures, "main")
                   ELSE failures
    /\ UNCHANGED <<alert_type, deviation, started, requests, events, frame, unit>>

\* The effect of one analysis call on main's state
Ran(f) ==
    /\ frame' = f
    /\ started' = Append(started, f.kind)
    /\ requests' = requests \o f.requests
    /\ events' = events \o f.emitted
    /\ failures' = IF f.caught # "none"
                   THEN Append(failures, f.kind)
                   ELSE failures
    /\ pc' = IF f.raised # "none" THEN "crashed" ELSE "ret"
    /\ UNCHANGED <<alert_type, deviation, todo, unit>>

CallPriceDeviation ==
    /\ pc = "call" /\ Head(todo) = "pricedev"
    /\ \E reply \in TickerReplies : Ran(GetPriceDeviation(reply, SIGMA))

CallPriceChange ==
    /\ pc = "call" /\ Head(todo) = "pricechange"
    /\ \E reply \in TickerReplies : Ran(GetPriceChange(reply, Threshold))

CallVolumeDeviation ==
    /\ pc = "call" /\ Head(todo) = "voldev"
    /\ \E reply1 \in CandleReplies(MaxRows) :
       \E reply2 \in CandleReplies(MaxRows1m) \cup {NotSent} :
          /\ (reply2 = NotSent) <=> Failed(VolumeFirstHalf(reply1).total_24hr_volume)
          /\ Ran(GetVolumeDeviation(reply1, reply2, Threshold))

\* The analysis returns: its locals are gone and main goes on.
Return ==
    /\ pc = "ret"
    /\ frame' = NoFrame
    /\ todo' = Tail(todo)
    /\ pc' = IF Tail(todo) = <<>> THEN "done" ELSE "call"
    /\ UNCHANGED <<alert_type, deviation, started, requests, events, failures, unit>>

Next ==
    \/ Main
    \/ CallPriceDeviation
    \/ CallPriceChange
    \/ CallVolumeDeviation
    \/ Return

Spec == Init /\ [][Next]_vars

(***************************************************************************)
(* calculate_percentage_change called on its own, on every pair of         *)
(* arguments                                                               *)
(***************************************************************************)
UnitVals == PyVals \cup {Num(90), Num(100), Num(110)}

UnitPercentageChange ==
    /\ pc = "start"
    /\ \E final \in UnitVals, initial \in UnitVals :
          unit' = [called |-> TRUE, final |-> final, initial |-> initial,
                   result |-> CalculatePercentageChange(final, initial)]
    /\ pc' = "done"
    /\ UNCHANGED <<alert_type, deviation, todo, started, requests, events,
                   failures, frame>>

PureNext ==
    \/ Next
    \/ UnitPercentageChange

PureSpec == Init /\ [][PureNext]_vars

(***************************************************************************)
(* Properties                                                              *)
(***************************************************************************)
AllKinds == <<"pricedev", "pricechange", "voldev">>
TickerKinds == {"pricedev", "pricechange"}

\* An analysis has run to its end and its locals are still in place.
Live == pc = "ret"

\* The analysis got through fetch, extraction and statistics.
Completed == frame.caught = "none" /\ frame.raised = "none"

IsZero(x) == x.form \in {"num", "str"} /\ x.val = 0
IsMissing(x) == x.form \in {"absent", "null"}

\* C1: with alert_type "all" the three analyses are started in the order
\* price-deviation, price-change, volume-deviation, each exactly once,
\* whatever failed in the earlier ones: main never stops early, what has
\* been started followed by what is still to start is always the three
\* kinds in order, and at the end all three have been started.
C1_AllStartsEachKindInOrder ==
    alert_type = "all" =>
        /\ pc # "crashed"
        /\ pc = "call" => started \o todo = AllKinds
        /\ pc = "ret" => started \o Tail(todo) = AllKinds
        /\ pc = "done" => started = AllKinds

\* The first two analyses failed and the third still ran and classified.
C1_Witness ==
    /\ alert_type = "all" /\ pc = "done"
    /\ failures = <<"pricedev", "pricechange">>
    /\ started = AllKinds
    /\ Len(events) = 1 /\ events[1].kind = "voldev"

\* C2: every analysis kind that completes without a failure records its
\* classification through the alert sink exactly once (send_alert or
\* send_info), and a kind that fails records nothing.
C2_EveryKindUsesSinkOnce ==
    Live =>
        IF Completed
        THEN /\ Len(frame.emitted) = 1
             /\ frame.emitted[1].via = "sink"
             /\ frame.emitted[1].kind = frame.kind
             /\ frame.emitted[1].severity \in {"ALERT", "INFO"}
        ELSE frame.emitted = <<>>

\* C3: price-change classifies as ALERT exactly when
\* abs(percentChange) >= threshold, and as INFO otherwise.
C3_PriceChangeAlertIffAtLeastThreshold ==
    (Live /\ frame.kind = "pricechange" /\ frame.percent_change.exc = "none") =>
        LET change == frame.percent_change.val
            limit == frame.threshold
        IN  /\ Len(frame.emitted) = 1
            /\ frame.emitted[1].severity = "ALERT"
                 <=> Abs(change.n) * limit.d >= limit.n * change.d

\* C4: price-deviation classifies as ALERT exactly when the z-score is
\* strictly above 1 or strictly below -1 and as INFO otherwise, whatever
\* --deviation is.  With n past prices of sum S and sum of squares Q, the
\* z-score of cur is outside [-1, 1] exactly when
\* (n*cur - S)^2 * (n-1) > n * (n*Q - S^2).
C4_PriceDeviationStrictSigmaOne ==
    (Live /\ frame.kind = "pricedev" /\ frame.zscore.exc = "none") =>
        LET past == frame.response.val.changes.vals
            cur == frame.current_price.val
            n == Len(past)
            D == n * cur - Sum(past)
            V == n * SumSq(past) - Sum(past) * Sum(past)
        IN  /\ Len(frame.emitted) = 1
            /\ frame.emitted[1].severity = "ALERT" <=> D * D * (n - 1) > n * V
            /\ frame.emitted[1].severity = "INFO" <=> D * D * (n - 1) <= n * V
            /\ frame.threshold = [n |-> 1, d |-> 1]

\* A z-score of exactly 1 under a --deviation other than 1 is INFO.
C4_Witness ==
    /\ Live /\ frame.kind = "pricedev" /\ frame.zscore.exc = "none"
    /\ frame.zscore.val.sgn = 1 /\ frame.zscore.val.p = frame.zscore.val.q
    /\ deviation = [n |-> 1, d |-> 2]
    /\ Len(frame.emitted) = 1 /\ frame.emitted[1].severity = "INFO"

\* C5: volume-deviation classifies as ALERT exactly when
\* percentChange > threshold, without absolute value, and as INFO
\* otherwise; with a non-negative threshold a current volume below the
\* 24-hour sum is never ALERT.
C5_VolumeDeviationDirectional ==
    (Live /\ frame.kind = "voldev" /\ frame.percent_change.exc = "none") =>
        LET cur == frame.current_volume.val.val
            total == frame.total_24hr_volume.val.val
            limit == frame.threshold
        IN  /\ Len(frame.emitted) = 1
            /\ total > 0
            /\ frame.emitted[1].severity = "ALERT"
                 <=> (cur - total) * 100 * limit.d > limit.n * total
            /\ frame.emitted[1].severity = "INFO"
                 <=> (cur - total) * 100 * limit.d <= limit.n * total
            /\ (limit.n >= 0 /\ cur < total) => frame.emitted[1].severity = "INFO"

\* The volume fell by more than the (non-negative) threshold, and the
\* classification is INFO.
C5_Witness ==
    /\ Live /\ frame.kind = "voldev" /\ frame.percent_change.exc = "none"
    /\ frame.threshold.n >= 0
    /\ frame.current_volume.val.val < frame.total_24hr_volume.val.val
    /\ RatGreater(RatAbs(frame.percent_change.val), frame.threshold)
    /\ Len(frame.emitted) = 1 /\ frame.emitted[1].severity = "INFO"

\* C6: percentageChange(final, initial) fails whenever final or initial
\* is zero or absent, and otherwise returns ((final - initial) / initial)
\* * 100 (110, 100 gives 10; 90, 100 gives -10); so a price-change or
\* volume-deviation analysis whose final value is zero emits nothing.
C6_PercentageChange ==
    /\ unit.called =>
         LET f == unit.final
             i == unit.initial
             r == unit.result
         IN  /\ IF f.form = "null" \/ f.val = 0 \/ i.form = "null" \/ i.val = 0
                THEN r.exc = "ValueError"
                ELSE /\ r.exc = "none"
                     /\ r.val.d > 0
                     /\ r.val.n * i.val = (f.val - i.val) * 100 * r.val.d
             /\ (f.val = 110 /\ i.val = 100) => r.val.n = 10 * r.val.d
             /\ (f.val = 90 /\ i.val = 100) => r.val.n = (-10) * r.val.d
    /\ (Live /\ frame.kind = "pricechange" /\ frame.open_price.exc = "none"
          /\ frame.current_price.val = 0)
         => frame.percent_change.exc = "ValueError" /\ frame.emitted = <<>>
    /\ (Live /\ frame.kind = "voldev" /\ frame.current_volume.exc = "none"
          /\ frame.current_volume.val.val = 0)
         => frame.percent_change.exc = "ValueError" /\ frame.emitted = <<>>

\* The latest one-minute volume is the number 0: no classification.
C6_Witness ==
    /\ Live /\ frame.kind = "voldev"
    /\ frame.current_volume.exc = "none"
    /\ frame.current_volume.val = Num(0)
    /\ frame.percent_change.exc = "ValueError"
    /\ frame.emitted = <<>>

\* C7: with fewer than 2 past values, or with all past values identical,
\* zScore returns no result: the call ends in an error that reaches the
\* caller, and the price-deviation analysis classifies nothing.
C7_ZscoreUndefinedRaises ==
    (Live /\ frame.kind = "pricedev" /\ frame.zscore.exc # "unset") =>
        LET past == frame.response.val.changes.vals
        IN  (Len(past) < 2 \/ \A i, j \in DOMAIN past : past[i] = past[j])
               => /\ frame.zscore.exc \notin {"none", "unset"}
                  /\ frame.caught = frame.zscore.exc
                  /\ frame.emitted = <<>>
                  /\ failures # <<>>
                  /\ failures[Len(failures)] = "pricedev"

\* Three identical past prices: no classification.
C7_Witness ==
    /\ Live /\ frame.kind = "pricedev" /\ frame.zscore.exc # "unset"
    /\ frame.response.val.changes.vals = <<2, 2, 2>>
    /\ frame.emitted = <<>>

\* C8: extractCurrentPrice and extractOpenPrice fail whenever the field is
\* absent, null or zero, be the zero a number or a numeric string, and so
\* never return 0.
C8_ExtractRejectsZero ==
    (Live /\ frame.kind \in TickerKinds) =>
        /\ (frame.current_price.exc # "unset"
              /\ (IsMissing(frame.response.val.close)
                    \/ IsZero(frame.response.val.close)))
             => frame.current_price.exc # "none"
        /\ (frame.open_price.exc # "unset"
              /\ (IsMissing(frame.response.val.open)
                    \/ IsZero(frame.response.val.open)))
             => frame.open_price.exc # "none"
        /\ frame.current_price.exc = "none" => frame.current_price.val # 0
        /\ frame.open_price.exc = "none" => frame.open_price.val # 0

\* C9: no exception leaves main, whatever alert_type is and whatever
\* fails; main can always go on until it is done; an unrecognized
\* alert_type sends no request and runs no analysis.
C9_NoErrorIsFatal ==
    /\ pc # "crashed"
    /\ frame.raised = "none"
    /\ pc # "done" => ENABLED Next
    /\ alert_type \notin {"pricedev", "pricechange", "voldev", "all"} =>
         /\ pc \in {"start", "done"}
         /\ requests = <<>> /\ started = <<>> /\ events = <<>>
         /\ frame = NoFrame

\* All three analyses failed and main reached its end.
C9_Witness ==
    /\ alert_type = "all" /\ pc = "done"
    /\ failures = AllKinds
    /\ events = <<>>

\* C10: send_request does not re-raise a transport error.  After an HTTP
\* error status the response reaches the analysis, which parses and
\* classifies it like any other; when no response was obtained, none
\* reaches the analysis, which ends without a classification.
C10_TransportErrorProceeds ==
    Live =>
        /\ frame.caught \notin {"HTTPError", "ConnectionError"}
        /\ (frame.kind \in TickerKinds /\ frame.transports = <<"http_error">>)
             => /\ frame.response.exc = "none"
                /\ frame.emitted # <<>> <=> Completed
        /\ (\E i \in DOMAIN frame.transports : frame.transports[i] = "no_response")
             => /\ frame.caught = "UnboundLocalError"
                /\ frame.emitted = <<>>
                /\ frame.kind \in TickerKinds => frame.response.exc # "none"

\* A ticker that came with an HTTP error status was classified as ALERT.
C10_Witness ==
    /\ Live /\ frame.kind = "pricechange"
    /\ frame.transports = <<"http_error">>
    /\ frame.response.val.json
    /\ Len(frame.emitted) = 1 /\ frame.emitted[1].severity = "ALERT"

====
